---- MODULE Spec2Model ----
(***************************************************************************)
(* Instrumented execution pipeline of lab_prompts: the execution logger    *)
(* (src/llms/logger.py) and the generic wrapper generate_with_logging      *)
(* (src/llms/base.py).                                                     *)
(*                                                                         *)
(* Text is modelled as sequences of one-character strings, so that the     *)
(* slug and the file name are computed character by character as the code  *)
(* computes them.  Money is counted in micro-dollars (6 decimals), latency *)
(* in microseconds (latency_ms with 3 decimals).                           *)
(***************************************************************************)
EXTENDS Integers, Sequences, FiniteSets, TLC

\* ------------------------------------------------------------------ bounds
\* number of log_execution / generate_with_logging calls in one behaviour
MaxCalls == 3

\* ------------------------------------------------------------- characters
UpperLetters == <<"A","B","C","D","E","F","G","H","I","J","K","L","M",
                  "N","O","P","Q","R","S","T","U","V","W","X","Y","Z">>

LowerLetters == <<"a","b","c","d","e","f","g","h","i","j","k","l","m",
                  "n","o","p","q","r","s","t","u","v","w","x","y","z">>

DigitChars == <<"0","1","2","3","4","5","6","7","8","9">>

\* str.lower() on one character
LowerChar(c) ==
    IF \E i \in 1..26 : UpperLetters[i] = c
    THEN LowerLetters[CHOOSE i \in 1..26 : UpperLetters[i] = c]
    ELSE c

\* str.replace(old, new) where new is a string of length 0 or 1
RECURSIVE Replace(_, _, _)
Replace(s, old, new) ==
    IF s = <<>> THEN <<>>
    ELSE (IF Head(s) = old THEN new ELSE <<Head(s)>>) \o Replace(Tail(s), old, new)

\* str.lower()
RECURSIVE Lower(_)
Lower(s) ==
    IF s = <<>> THEN <<>> ELSE <<LowerChar(Head(s))>> \o Lower(Tail(s))

\* zero-padded decimal rendering of n on w digits (strftime fields)
RECURSIVE Pad(_, _)
Pad(n, w) ==
    IF w = 0 THEN <<>> ELSE Pad(n \div 10, w - 1) \o <<DigitChars[(n % 10) + 1]>>

\* -------------------------------------------------------------- the clock
\* datetime.now(): seconds after 2025-01-10 12:00:00 and the microsecond field
SecValues == {0, 1}

MicroValues == {0, 1}

\* the instants of a behaviour: two in the same second, one in the next
Timestamps ==
    {t \in [sec : SecValues, micro : MicroValues] : t.sec = 0 \/ t.micro = 0}

Later(t, u) == u.sec > t.sec \/ (u.sec = t.sec /\ u.micro > t.micro)

\* timestamp.strftime("%Y-%m-%d-%H%M%S")
time_str(t) ==
    <<"2","0","2","5","-","0","1","-","1","0","-","1","2","0","0">> \o Pad(t.sec, 2)

\* timestamp.strftime("%f")
micro_str(t) == Pad(t.micro, 6)

\* ------------------------------------------------------ values of the run
\* absent / null value and present value of an optional field
Null == <<>>

Some(x) == <<x>>

\* model identifiers handed to the providers (config "model_name")
ModelGpt41 == <<"g","p","t","-","4",".","1">>

ModelGpt41Dep == <<"g","p","t","-","4","1">>

\* get_metadata() of a provider: temperature in tenths, max_tokens as is
Metadata(provider, vendor, model) ==
    [provider |-> provider, model |-> model, temperature |-> 1,
     max_tokens |-> 4096, type |-> "api", vendor |-> vendor]

\* a metadata dict without the "model" key
MetadataNoModel ==
    [provider |-> "openai", temperature |-> 1, max_tokens |-> 4096,
     type |-> "api", vendor |-> "openai"]

\* dict.get(key, default)
Get(d, key, default) == IF key \in DOMAIN d THEN d[key] ELSE default

\* token usage triples
Usage(i, o) == [input_tokens |-> i, output_tokens |-> o, total_tokens |-> i + o]

\* cost breakdowns, in micro-dollars
Cost(i, o, avail) ==
    [input_cost |-> i, output_cost |-> o, total_cost |-> i + o,
     currency |-> "USD", pricing_available |-> avail]

\* prompt dicts {"user": ..., "system": ...}
PromptSet == {[user |-> "hello", system |-> Null]}

\* the arguments of the direct log_execution calls
LogArgs ==
    {[metadata |-> Metadata("openai", "openai", ModelGpt41),
      tokens |-> Usage(3, 4), cost |-> Cost(40, 80, TRUE),
      response |-> "hi", latency |-> 12346],
     [metadata |-> Metadata("huggingface", "huggingface", ModelGpt41Dep),
      tokens |-> Usage(0, 0), cost |-> Cost(0, 0, FALSE),
      response |-> "hi", latency |-> 12344],
     [metadata |-> MetadataNoModel,
      tokens |-> Usage(3, 4), cost |-> Cost(0, 0, FALSE),
      response |-> "hi", latency |-> 12346]}

\* n / d rounded to the nearest integer, a half going to the even
\* neighbour (Python's round), for n >= 0 and d > 0
RoundDiv(n, d) ==
    LET q == n \div d
        r == n % d
    IN  IF 2 * r > d \/ (2 * r = d /\ q % 2 = 1) THEN q + 1 ELSE q

\* round(latency, 2): latency_ms in hundredths of a millisecond
Round2(latency) == RoundDiv(latency, 10)

\* ------------------------------------------------------------- the logger
\* _generate_filename: the slug of the model name
model_slug(model) ==
    Lower(Replace(Replace(Replace(Replace(model, ".", <<>>), ":", <<"-">>),
                          "/", <<"-">>), " ", <<"-">>))

JsonExt == <<".","j","s","o","n">>

\* _generate_filename(model, timestamp) against the files of the directory
_generate_filename(dir, model, timestamp) ==
    LET filename == model_slug(model) \o <<"-">> \o time_str(timestamp) \o JsonExt
    IN  IF filename \in DOMAIN dir
        THEN model_slug(model) \o <<"-">> \o time_str(timestamp) \o <<"-">>
                 \o micro_str(timestamp) \o JsonExt
        ELSE filename

\* the content of a file that is not valid JSON (a truncated dump)
CorruptContent == [valid |-> FALSE]

\* log_data whose latency_ms is cut to 2 decimals instead of rounded
log_data_truncating(timestamp, prompt, response, metadata, tokens, cost, latency) ==
    [valid |-> TRUE,
     timestamp |-> timestamp,
     model |-> Get(metadata, "model", <<"u","n","k","n","o","w","n">>),
     provider |-> Get(metadata, "provider", "unknown"),
     prompt |-> prompt,
     response |-> response,
     tokens |-> tokens,
     cost |-> cost,
     latency_ms |-> latency \div 10,
     metadata |-> [temperature |-> Get(metadata, "temperature", Null),
                   max_tokens |-> Get(metadata, "max_tokens", Null),
                   vendor |-> Get(metadata, "vendor", Null),
                   type |-> Get(metadata, "type", Null)],
     evaluation |-> Null]

\* log_data of log_execution
log_data(timestamp, prompt, response, metadata, tokens, cost, latency) ==
    [valid |-> TRUE,
     timestamp |-> timestamp,
     model |-> Get(metadata, "model", <<"u","n","k","n","o","w","n">>),
     provider |-> Get(metadata, "provider", "unknown"),
     prompt |-> prompt,
     response |-> response,
     tokens |-> tokens,
     cost |-> cost,
     latency_ms |-> Round2(latency),
     metadata |-> [temperature |-> Get(metadata, "temperature", Null),
                   max_tokens |-> Get(metadata, "max_tokens", Null),
                   vendor |-> Get(metadata, "vendor", Null),
                   type |-> Get(metadata, "type", Null)],
     evaluation |-> Null]

\* outcomes of writing a file: written, open() raises, json.dump raises
\* after open() has truncated the file
IoOutcomes == {"ok", "open_fails", "dump_fails"}

\* dir with file name holding content
WriteFile(dir, name, content) ==
    [f \in DOMAIN dir \cup {name} |-> IF f = name THEN content ELSE dir[f]]

\* the try block of log_execution: the directory afterwards, the path
\* reached by "return log_file", and whether an exception left the block
\* (KeyError on metadata["model"], an error of open() or of json.dump)
log_execution_try(dir, timestamp, prompt, response, metadata, tokens, cost, latency, io) ==
    IF "model" \notin DOMAIN metadata
    THEN [dir |-> dir, ret |-> Null, exc |-> TRUE]
    ELSE LET log_file == _generate_filename(dir, metadata["model"], timestamp)
             data == log_data(timestamp, prompt, response, metadata,
                             tokens, cost, latency)
         IN  CASE io = "ok" ->
                    [dir |-> WriteFile(dir, log_file, data),
                     ret |-> log_file, exc |-> FALSE]
               [] io = "open_fails" ->
                    [dir |-> dir, ret |-> Null, exc |-> TRUE]
               [] io = "dump_fails" ->
                    [dir |-> WriteFile(dir, log_file, CorruptContent),
                     ret |-> Null, exc |-> TRUE]

\* log_execution without its "except Exception": the exception leaves it
log_execution_unguarded(dir, timestamp, prompt, response, metadata, tokens, cost, latency, io) ==
    LET t == log_execution_try(dir, timestamp, prompt, response, metadata,
                             tokens, cost, latency, io)
    IN  [dir |-> t.dir, ret |-> t.ret, raised |-> t.exc]

\* log_execution: "except Exception" returns None for every exception of
\* the try block; the directory afterwards, the returned handle (Null for
\* None) and whether the call raised
log_execution(dir, timestamp, prompt, response, metadata, tokens, cost, latency, io) ==
    LET t == log_execution_try(dir, timestamp, prompt, response, metadata,
                             tokens, cost, latency, io)
    IN  [dir |-> t.dir, ret |-> IF t.exc THEN Null ELSE t.ret, raised |-> FALSE]

\* evaluation result dicts: scores in thousandths, Null for None
EvalError(msg) ==
    [relevance |-> Null, coherence |-> Null, correctness |-> Null,
     context_quality |-> Null, overall_score |-> Null,
     metrics_used |-> <<>>, error |-> Some(msg)]

EvalScores(rel) ==
    [relevance |-> Some(rel), coherence |-> Null, correctness |-> Null,
     context_quality |-> Null, overall_score |-> Some(rel),
     metrics_used |-> <<"answer_relevancy">>, error |-> Null]

\* the eval_results of the direct add_evaluation_metrics calls
EvalResultSet == {EvalScores(800)}

\* a path no log_execution call has produced
MissingFile == <<"x">> \o JsonExt

\* add_evaluation_metrics that starts from an empty document when the
\* record cannot be read, instead of raising
add_evaluation_metrics_lenient(dir, path, eval_results, io) ==
    IF io # "ok"
    THEN [dir |-> dir, raised |-> TRUE]
    ELSE [dir |-> WriteFile(dir, path,
                     [valid |-> TRUE, evaluation |-> Some(eval_results)]),
          raised |-> FALSE]

\* add_evaluation_metrics: the directory afterwards and whether the call
\* raised.  The rewritten data was loaded from JSON and eval_results holds
\* JSON values, so the dump itself does not fail; open() for writing may.
add_evaluation_metrics(dir, path, eval_results, io) ==
    IF path \notin DOMAIN dir
    THEN [dir |-> dir, raised |-> TRUE]                \* FileNotFoundError
    ELSE IF ~dir[path].valid
    THEN [dir |-> dir, raised |-> TRUE]                \* json.JSONDecodeError
    ELSE IF io # "ok"
    THEN [dir |-> dir, raised |-> TRUE]                \* open(.., 'w') raises
    ELSE [dir |-> WriteFile(dir, path,
                     [dir[path] EXCEPT !.evaluation = Some(eval_results)]),
          raised |-> FALSE]

\* sum of f[x] over the elements x of the finite set S
RECURSIVE SumOver(_, _)
SumOver(S, f) ==
    IF S = {} THEN 0
    ELSE LET x == CHOOSE y \in S : TRUE
         IN  f[x] + SumOver(S \ {x}, f)

\* round(total_cost, 4): micro-dollars to units of 1e-4 dollar
Round4(micro) == RoundDiv(micro, 100)

\* get_log_stats over the *.json files of the directory; providers_used,
\* a sorted list without duplicates, is kept as the set of its elements
get_log_stats(dir) ==
    LET log_files == DOMAIN dir
        readable == {f \in log_files : dir[f].valid}
        CostOf == [f \in readable |-> Get(dir[f].cost, "total_cost", 0)]
        TokensOf == [f \in readable |-> Get(dir[f].tokens, "total", 0)]
    IN  [total_logs |-> Cardinality(log_files),
         total_cost |-> Round4(SumOver(readable, CostOf)),
         total_tokens |-> SumOver(readable, TokensOf),
         providers_used |-> {dir[f].provider : f \in readable}]

\* ------------------------------------------------------------ the pricing
ModelGpt4Turbo == <<"g","p","t","-","4","-","t","u","r","b","o">>

ModelGpt4 == <<"g","p","t","-","4">>

ModelGpt35Turbo == <<"g","p","t","-","3",".","5","-","t","u","r","b","o">>

ModelGpt4o == <<"g","p","t","-","4","o">>

ModelGpt4oMini == <<"g","p","t","-","4","o","-","m","i","n","i">>

ModelClaudeSonnet4 ==
    <<"c","l","a","u","d","e","-","s","o","n","n","e","t","-","4","-",
    "2","0","2","5","0","5","1","4">>

ModelClaudeOpus3 ==
    <<"c","l","a","u","d","e","-","o","p","u","s","-","3","-","2","0",
    "2","4","0","2","2","9">>

ModelClaudeSonnet35 ==
    <<"c","l","a","u","d","e","-","s","o","n","n","e","t","-","3","-",
    "5","-","2","0","2","4","0","2","2","9">>

ModelClaudeHaiku3 ==
    <<"c","l","a","u","d","e","-","h","a","i","k","u","-","3","-","2",
    "0","2","4","0","3","0","7">>

ModelGemini15Pro ==
    <<"g","e","m","i","n","i","-","1",".","5","-","p","r",
    "o">>

ModelGemini15Flash ==
    <<"g","e","m","i","n","i","-","1",".","5","-","f","l","a","s",
    "h">>

ModelGeminiPro == <<"g","e","m","i","n","i","-","p","r","o">>

ModelDeepSeekR1 ==
    <<"d","e","e","p","s","e","e","k","-","a","i","/","D","e","e","p",
    "S","e","e","k","-","R","1",":","n","o","v","i","t","a">>

ModelDefault == <<"d","e","f","a","u","l","t">>

\* MODEL_PRICING, in thousandths of a dollar per million tokens
MODEL_PRICING ==
    (ModelGpt4Turbo :> [input |-> 10000, output |-> 30000]) @@
    (ModelGpt4 :> [input |-> 30000, output |-> 60000]) @@
    (ModelGpt35Turbo :> [input |-> 500, output |-> 1500]) @@
    (ModelGpt4o :> [input |-> 5000, output |-> 15000]) @@
    (ModelGpt4oMini :> [input |-> 150, output |-> 600]) @@
    (ModelClaudeSonnet4 :> [input |-> 3000, output |-> 15000]) @@
    (ModelClaudeOpus3 :> [input |-> 15000, output |-> 75000]) @@
    (ModelClaudeSonnet35 :> [input |-> 3000, output |-> 15000]) @@
    (ModelClaudeHaiku3 :> [input |-> 250, output |-> 1250]) @@
    (ModelGemini15Pro :> [input |-> 1250, output |-> 5000]) @@
    (ModelGemini15Flash :> [input |-> 75, output |-> 300]) @@
    (ModelGeminiPro :> [input |-> 500, output |-> 1500]) @@
    (ModelDeepSeekR1 :> [input |-> 0, output |-> 0]) @@
    (ModelDefault :> [input |-> 0, output |-> 0])

\* (tokens / 1_000_000) * price as an amount of money: whole micro-dollars
\* and the thousandths of a micro-dollar left over (the product is taken
\* on the thousands and on the rest of the tokens apart, to stay within
\* the integers of the checker)
Amount(tokens, price) ==
    LET rest == (tokens % 1000) * price
    IN  [micro |-> (tokens \div 1000) * price + rest \div 1000,
         nano |-> rest % 1000]

\* input_cost + output_cost on two amounts
AmountSum(a, b) ==
    [micro |-> a.micro + b.micro + (a.nano + b.nano) \div 1000,
     nano |-> (a.nano + b.nano) % 1000]

\* round(cost, 6): an amount to whole micro-dollars, the half to the even
\* neighbour (where the amount is an exact half of a micro-dollar the
\* binary fraction of the source may lie on either side of it; the token
\* counts enumerated below give no exact half)
Round6(amount) ==
    LET odd == amount.micro % 2
    IN  amount.micro - odd + RoundDiv(odd * 1000 + amount.nano, 1000)

\* calculate_cost with the prices of the two directions exchanged
calculate_cost_swapped(model, input_tokens, output_tokens) ==
    LET pricing_available == model \in DOMAIN MODEL_PRICING
        pricing == IF pricing_available THEN MODEL_PRICING[model]
                   ELSE MODEL_PRICING[ModelDefault]
        input_cost == Amount(input_tokens, pricing.output)
        output_cost == Amount(output_tokens, pricing.input)
        total_cost == AmountSum(input_cost, output_cost)
    IN  [input_cost |-> Round6(input_cost),
         output_cost |-> Round6(output_cost),
         total_cost |-> Round6(total_cost),
         currency |-> "USD",
         pricing_available |-> pricing_available]

\* CostCalculator.calculate_cost, the costs in micro-dollars
calculate_cost(model, input_tokens, output_tokens) ==
    LET pricing_available == model \in DOMAIN MODEL_PRICING
        pricing == IF pricing_available THEN MODEL_PRICING[model]
                   ELSE MODEL_PRICING[ModelDefault]
        input_cost == Amount(input_tokens, pricing.input)
        output_cost == Amount(output_tokens, pricing.output)
        total_cost == AmountSum(input_cost, output_cost)
    IN  [input_cost |-> Round6(input_cost),
         output_cost |-> Round6(output_cost),
         total_cost |-> Round6(total_cost),
         currency |-> "USD",
         pricing_available |-> pricing_available]

\* ----------------------------------------------------------- the evaluator
\* "context and context.strip()" for an optional text: Null is None,
\* Some(" ") a blank text
HasText(t) == t # Null /\ t[1] # " "

\* the metric list of the constructor, the same for every call
metrics_to_use_fixed(context, ground_truth) ==
    <<"answer_relevancy", "faithfulness">>

\* metrics_to_use of RAGASEvaluator.evaluate_response
metrics_to_use(context, ground_truth) ==
    <<"answer_relevancy">>
    \o (IF HasText(context) THEN <<"faithfulness">> ELSE <<>>)
    \o (IF HasText(ground_truth)
        THEN <<"answer_correctness">>
             \o (IF HasText(context) THEN <<"context_precision">> ELSE <<>>)
        ELSE <<>>)

\* sum of the elements of a sequence of numbers
RECURSIVE SumSeq(_)
SumSeq(s) == IF s = <<>> THEN 0 ELSE Head(s) + SumSeq(Tail(s))

\* the conversion of the engine's result to results_dict, by the shape of
\* the result; engine.scores maps metric names to scores in 1e-4 units
convert_results(engine) ==
    CASE engine.shape = "to_pandas" -> engine.scores
      [] engine.shape = "scores" -> engine.scores
      [] engine.shape = "indexed" ->
            [m \in DOMAIN engine.scores \cap {"answer_relevancy", "faithfulness"}
                |-> engine.scores[m]]
      [] OTHER -> ("answer_relevancy" :> 0)   \* empty table, unknown shape

\* the sum of the scores divided by the four metrics, absent ones included
overall_score_of_four(scores_for_average) ==
    RoundDiv(SumSeq(scores_for_average), 10 * 4)

\* round(sum(scores_for_average) / len(scores_for_average), 3), the scores
\* in 1e-4 units and the result in thousandths
overall_score(scores_for_average) ==
    RoundDiv(SumSeq(scores_for_average), 10 * Len(scores_for_average))

\* the result built from every score of results_dict, whatever inputs
\* were supplied
ScoreBundleUngated(context, ground_truth, engine) ==
    LET results_dict == convert_results(engine)
        has(m) == m \in DOMAIN results_dict
        metrics_used ==
            <<"answer_relevancy">>
            \o (IF has("faithfulness") THEN <<"faithfulness">> ELSE <<>>)
            \o (IF has("answer_correctness") THEN <<"answer_correctness">> ELSE <<>>)
            \o (IF has("context_precision") THEN <<"context_precision">> ELSE <<>>)
        scores_for_average == [i \in DOMAIN metrics_used |-> results_dict[metrics_used[i]]]
        field(m) == IF has(m) THEN Some(RoundDiv(results_dict[m], 10)) ELSE Null
    IN  IF ~has("answer_relevancy")
        THEN EvalError("no valid scores")
        ELSE [relevance |-> field("answer_relevancy"),
              coherence |-> field("faithfulness"),
              correctness |-> field("answer_correctness"),
              context_quality |-> field("context_precision"),
              overall_score |-> Some(RoundDiv(SumSeq(scores_for_average),
                                              10 * Len(scores_for_average))),
              metrics_used |-> metrics_used,
              error |-> Null]

\* RAGASEvaluator.evaluate_response after the engine has answered:
\* scores rounded to 3 decimals (thousandths)
ScoreBundle(context, ground_truth, engine) ==
    LET results_dict == convert_results(engine)
        has(m) == m \in DOMAIN results_dict
        coherence == HasText(context) /\ has("faithfulness")
        correctness == HasText(ground_truth) /\ has("answer_correctness")
        context_quality == HasText(context) /\ HasText(ground_truth)
                           /\ has("context_precision")
        metrics_used ==
            <<"answer_relevancy">>
            \o (IF coherence THEN <<"faithfulness">> ELSE <<>>)
            \o (IF correctness THEN <<"answer_correctness">> ELSE <<>>)
            \o (IF context_quality THEN <<"context_precision">> ELSE <<>>)
        scores_for_average == [i \in DOMAIN metrics_used |-> results_dict[metrics_used[i]]]
    IN  IF ~has("answer_relevancy")
        THEN EvalError("no valid scores")
        ELSE [relevance |-> Some(RoundDiv(results_dict["answer_relevancy"], 10)),
              coherence |-> IF coherence
                            THEN Some(RoundDiv(results_dict["faithfulness"], 10))
                            ELSE Null,
              correctness |-> IF correctness
                              THEN Some(RoundDiv(results_dict["answer_correctness"], 10))
                              ELSE Null,
              context_quality |-> IF context_quality
                                  THEN Some(RoundDiv(results_dict["context_precision"], 10))
                                  ELSE Null,
              overall_score |-> Some(overall_score(scores_for_average)),
              metrics_used |-> metrics_used,
              error |-> Null]

\* evaluate_response(prompt, response, context, ground_truth): the
\* evaluator cannot be built, the engine raises, or the engine answers
evaluate_response(context, ground_truth, engine) ==
    CASE engine.outcome = "init_fails" -> EvalError("init")
      [] engine.outcome = "raises" -> EvalError("engine")
      [] OTHER -> ScoreBundle(context, ground_truth, engine)

\* number of generate calls made on one provider instance
MaxGenerates == 3

\* ------------------------------------------------------------ the wrapper
\* number of generate_with_logging calls in one behaviour
MaxRuns == 2

\* provider instances: LLMProvider.__init__ sets model_name, the logging
\* configuration and a logger exactly when enable_logging is set
Provider(provider, vendor, model, context, ground_truth, logging, evaluation) ==
    [provider |-> provider, vendor |-> vendor, model_name |-> model,
     eval_context |-> context, eval_ground_truth |-> ground_truth,
     enable_logging |-> logging, enable_evaluation |-> evaluation,
     logger |-> logging]

ProviderSet ==
    {Provider("openai", "openai", ModelGpt4, Some("ctx"), Some("truth"), l, e) : l, e \in BOOLEAN}
    \cup
    {Provider("huggingface", "huggingface", ModelGpt41Dep, Null, Null, l, e) : l, e \in BOOLEAN}

\* latencies the wrapper measures, in microseconds
LatencySet == {12346}

\* exceptions a vendor call raises
ExceptionSet == {"AuthenticationError", "APIConnectionError"}

\* an entry of the trace: the function called, "return" or "raise", and
\* the text generate returned or the exception it raised
Entry(fn, out, value) == <<fn, out, value>>

\* texts a provider generates
TextSet == {"hi", "bye"}

\* what get_usage_info of a provider returns: token counts, or a usage
\* whose counts the vendor left null (NoCount stands for None)
NoCount == -1

UsageNull == [input_tokens |-> NoCount, output_tokens |-> NoCount, total_tokens |-> NoCount]

ProviderUsageSet == {Usage(3, 4), UsageNull}

\* answers of the evaluation engine to the wrapper's evaluation
EngineSet ==
    {[outcome |-> "raises", shape |-> "none", scores |-> <<>>],
     [outcome |-> "ok", shape |-> "to_pandas",
      scores |-> ("answer_relevancy" :> 8004) @@ ("faithfulness" :> 6000) @@
                 ("answer_correctness" :> 5000) @@ ("context_precision" :> 7000)]}

\* ---------------------------------------------------------- the providers
\* estimate_tokens without the floor of one token for a non-empty text
estimate_tokens_unfloored(text) ==
    IF text = <<>> THEN 0 ELSE Len(text) \div 4

\* token_counter.estimate_tokens; the empty text stands for "" and for None
estimate_tokens(text) ==
    IF text = <<>> THEN 0
    ELSE IF Len(text) \div 4 > 1 THEN Len(text) \div 4 ELSE 1

\* texts of the provider calls, as sequences of characters
PromptHello == <<"h","e","l","l","o"," ","y","o","u">>

TextOk == <<"o","k">>

TextFine == <<"f","i","n","e"," ","t","h","a","n","k","s","!">>

ProviderKinds == {"openai", "claude", "huggingface", "gemini"}

\* a response object of the OpenAI client (OpenAI and HuggingFace):
\* whether choices[0] exists, its message content, and usage (Null for
\* None or absent)
ChatCompletion(choices, content, usage) ==
    [choices |-> choices, content |-> content, usage |-> usage]

CompletionUsage(p, c) ==
    Some([prompt_tokens |-> p, completion_tokens |-> c, total_tokens |-> p + c])

\* a message object of the Anthropic client
Message(content, text, usage) ==
    [content |-> content, text |-> text, usage |-> usage]

MessageUsage(i, o) == Some([input_tokens |-> i, output_tokens |-> o])

\* a response object of the Gemini client: readable says whether
\* response.text can be read
GenerateContentResponse(readable, text) == [readable |-> readable, text |-> text]

\* what the vendor call of generate does: it raises, or answers
VendorRaises == [raises |-> TRUE]

VendorAnswers(kind) ==
    {VendorRaises} \cup
    {[raises |-> FALSE, response |-> r] : r \in
        CASE kind \in {"openai", "huggingface"} ->
                {ChatCompletion(TRUE, TextOk, CompletionUsage(3, 4)),
                 ChatCompletion(TRUE, TextFine, Null),
                 ChatCompletion(FALSE, <<>>, CompletionUsage(5, 0))}
          [] kind = "claude" ->
                {Message(TRUE, TextOk, MessageUsage(3, 4)),
                 Message(TRUE, TextFine, Null),
                 Message(FALSE, <<>>, MessageUsage(5, 0))}
          [] kind = "gemini" ->
                {GenerateContentResponse(TRUE, TextOk),
                 GenerateContentResponse(TRUE, <<>>),
                 GenerateContentResponse(FALSE, <<>>)}}

\* __init__ of the four providers: the attributes generate fills in
NewProvider(kind) ==
    CASE kind = "openai" -> [kind |-> kind, last_response |-> Null]
      [] kind = "claude" -> [kind |-> kind, last_message |-> Null]
      [] kind = "huggingface" ->
            [kind |-> kind, last_response |-> Null, last_prompt |-> <<>>]
      [] kind = "gemini" ->
            [kind |-> kind, last_response |-> <<>>, last_prompt |-> <<>>]

\* the outcome of a provider method: the instance afterwards, what the
\* method returned or the exception it raised
Returned(self, value) == [self |-> self, ret |-> value, raised |-> FALSE]

Raised(self, exc) == [self |-> self, ret |-> exc, raised |-> TRUE]

\* OpenAILLMProvider.generate
OpenAILLMProvider_generate(self, prompt, answer) ==
    IF answer.raises THEN Raised(self, "APIConnectionError")
    ELSE LET stored == [self EXCEPT !.last_response = Some(answer.response)]
         IN  IF answer.response.choices
             THEN Returned(stored, answer.response.content)
             ELSE Raised(stored, "IndexError")

\* ClaudeProvider.generate
ClaudeProvider_generate(self, prompt, answer) ==
    IF answer.raises THEN Raised(self, "APIConnectionError")
    ELSE LET stored == [self EXCEPT !.last_message = Some(answer.response)]
         IN  IF answer.response.content
             THEN Returned(stored, answer.response.text)
             ELSE Raised(stored, "IndexError")

\* HuggingFaceProvider.generate
HuggingFaceProvider_generate(self, prompt, answer) ==
    IF answer.raises THEN Raised(self, "APIConnectionError")
    ELSE LET stored == [self EXCEPT !.last_response = Some(answer.response),
                                    !.last_prompt = prompt]
         IN  IF answer.response.choices
             THEN Returned(stored, answer.response.content)
             ELSE Raised(stored, "IndexError")

\* GeminiProvider.generate with no system prompt: last_prompt is assigned
\* before response.text is read
GeminiProvider_generate(self, prompt, answer) ==
    IF answer.raises THEN Raised(self, "APIConnectionError")
    ELSE LET full_prompt == prompt
         IN  IF answer.response.readable
             THEN Returned([self EXCEPT !.last_prompt = full_prompt,
                                        !.last_response = answer.response.text],
                           answer.response.text)
             ELSE Raised([self EXCEPT !.last_prompt = full_prompt], "ValueError")

\* generate of the provider self
generate(self, prompt, answer) ==
    CASE self.kind = "openai" -> OpenAILLMProvider_generate(self, prompt, answer)
      [] self.kind = "claude" -> ClaudeProvider_generate(self, prompt, answer)
      [] self.kind = "huggingface" -> HuggingFaceProvider_generate(self, prompt, answer)
      [] self.kind = "gemini" -> GeminiProvider_generate(self, prompt, answer)
\* OpenAILLMProvider.get_usage_info; a response whose usage is None makes
\* usage.prompt_tokens raise AttributeError
OpenAILLMProvider_get_usage_info(self) ==
    IF self.last_response # Null
    THEN LET usage == self.last_response[1].usage
         IN  IF usage = Null THEN Raised(self, "AttributeError")
             ELSE Returned(self, [input_tokens |-> usage[1].prompt_tokens,
                                  output_tokens |-> usage[1].completion_tokens,
                                  total_tokens |-> usage[1].total_tokens])
    ELSE Returned(self, Usage(0, 0))

\* ClaudeProvider.get_usage_info
ClaudeProvider_get_usage_info(self) ==
    IF self.last_message # Null
    THEN LET usage == self.last_message[1].usage
         IN  IF usage = Null THEN Raised(self, "AttributeError")
             ELSE Returned(self, [input_tokens |-> usage[1].input_tokens,
                                  output_tokens |-> usage[1].output_tokens,
                                  total_tokens |-> usage[1].input_tokens
                                                   + usage[1].output_tokens])
    ELSE Returned(self, Usage(0, 0))

\* HuggingFaceProvider.get_usage_info
HuggingFaceProvider_get_usage_info(self) ==
    IF self.last_response # Null /\ self.last_response[1].usage # Null
    THEN LET usage == self.last_response[1].usage
         IN  Returned(self, [input_tokens |-> usage[1].prompt_tokens,
                             output_tokens |-> usage[1].completion_tokens,
                             total_tokens |-> usage[1].total_tokens])
    ELSE LET input_tokens == estimate_tokens(self.last_prompt)
             output_text == IF self.last_response # Null
                               /\ self.last_response[1].choices
                            THEN self.last_response[1].content
                            ELSE <<>>
             output_tokens == estimate_tokens(output_text)
         IN  Returned(self, Usage(input_tokens, output_tokens))

\* total_tokens of model.count_tokens(text) when the vendor answers
count_tokens(text) == Len(text)

\* GeminiProvider.get_usage_info; counting says whether model.count_tokens
\* answers ("ok") or raises
GeminiProvider_get_usage_info(self, counting) ==
    IF self.last_prompt # <<>> /\ self.last_response # <<>> /\ counting = "ok"
    THEN Returned(self, Usage(count_tokens(self.last_prompt),
                              count_tokens(self.last_response)))
    ELSE Returned(self, Usage(estimate_tokens(self.last_prompt),
                              estimate_tokens(self.last_response)))

\* get_usage_info of the provider self
get_usage_info(self, counting) ==
    CASE self.kind = "openai" -> OpenAILLMProvider_get_usage_info(self)
      [] self.kind = "claude" -> ClaudeProvider_get_usage_info(self)
      [] self.kind = "huggingface" -> HuggingFaceProvider_get_usage_info(self)
      [] self.kind = "gemini" -> GeminiProvider_get_usage_info(self, counting)

\* the frame of generate_with_logging when no call is running
Idle == [pc |-> "idle"]

\* ------------------------------------------------------------------ state
VARIABLES
    now,        \* the value datetime.now() returns
    files,      \* the log directory: file name -> content
    calls,      \* number of direct log_execution calls made so far
    lastOp,     \* the operation that ran last
    arg,        \* the arguments of the last direct call of the logger
    raised,     \* whether the last operation raised to its caller
    ret,        \* what the last operation returned (Null for None)
    successes,  \* number of log_execution calls that returned a handle
    handles,    \* the handles returned by log_execution so far
    frame,      \* generate_with_logging: its position and local variables
    trace,      \* the calls the running or last generate_with_logging made
    runs,       \* number of generate_with_logging calls made so far
    procs,      \* two callers of log_execution at once: position and locals
    providers,  \* the provider instances constructed: id -> attributes
    lastCall,   \* per instance, how its most recent generate call ended
    reported,   \* usages get_usage_info returned for calls that succeeded
    sessions,   \* the logical sessions: sharing mode, position and locals
    evalCall,   \* the last call of RAGASEvaluator.evaluate_response
    fnCall      \* the last call of a function without state: arguments, result

vars == <<now, files, calls, lastOp, arg, raised, ret, successes, handles,
          frame, trace, runs, procs, providers, lastCall, reported, sessions,
          evalCall, fnCall>>

providerVars == <<providers, lastCall, reported>>

\* the state of the providers, the sessions and the evaluator
sideVars == <<providers, lastCall, reported, sessions, evalCall, fnCall>>

wrapperVars == <<frame, trace, runs>>

\* the two callers that run log_execution at the same time
Writers == {1, 2}

Init ==
    /\ now = [sec |-> 0, micro |-> 0]
    /\ files = <<>>
    /\ calls = 0
    /\ lastOp = "init"
    /\ arg = Null
    /\ raised = FALSE
    /\ ret = Null
    /\ successes = 0
    /\ handles = {}
    /\ frame = Idle
    /\ trace = <<>>
    /\ runs = 0
    /\ procs = [p \in Writers |-> [pc |-> "start"]]
    /\ providers = <<>>
    /\ lastCall = <<>>
    /\ reported = {}
    /\ sessions = [pc |-> "unset"]
    /\ evalCall = Null
    /\ fnCall = Null

\* the clock advances
Tick ==
    /\ \E t \in Timestamps : Later(now, t) /\ now' = t
    /\ UNCHANGED <<files, calls, lastOp, arg, raised, ret, successes, handles,
                   wrapperVars, procs, sideVars>>

\* ExecutionLogger.log_execution called by a client of the logger
LogExecution ==
    /\ calls < MaxCalls
    /\ \E prompt \in PromptSet, a \in LogArgs, io \in IoOutcomes :
          LET r == log_execution(files, now, prompt, a.response, a.metadata,
                                  a.tokens, a.cost, a.latency, io)
          IN  /\ files' = r.dir
              /\ ret' = r.ret
              /\ raised' = r.raised
              /\ successes' = IF r.ret = Null THEN successes ELSE successes + 1
              /\ handles' = IF r.ret = Null THEN handles ELSE handles \cup {r.ret}
              /\ arg' = [prompt |-> prompt, response |-> a.response,
                          metadata |-> a.metadata, tokens |-> a.tokens,
                          cost |-> a.cost, latency |-> a.latency, io |-> io]
    /\ calls' = calls + 1
    /\ lastOp' = "log_execution"
    /\ UNCHANGED <<now, wrapperVars, procs, sideVars>>

\* ExecutionLogger.add_evaluation_metrics called by a client of the logger
AddEvaluationMetrics ==
    /\ \E path \in DOMAIN files \cup {MissingFile},
          eval_results \in EvalResultSet, io \in {"ok", "open_fails"} :
          LET r == add_evaluation_metrics(files, path, eval_results, io)
          IN  /\ files' = r.dir
              /\ raised' = r.raised
              /\ arg' = path
    /\ lastOp' = "add_evaluation_metrics"
    /\ ret' = Null
    /\ UNCHANGED <<now, calls, successes, handles, wrapperVars, procs, sideVars>>

\* get_log_stats that deletes the files it cannot read
GetLogStatsPruning ==
    /\ ret' = get_log_stats(files)
    /\ files' = [f \in {g \in DOMAIN files : files[g].valid} |-> files[f]]
    /\ lastOp' = "get_log_stats"
    /\ raised' = FALSE
    /\ arg' = Null
    /\ UNCHANGED <<now, calls, successes, handles, wrapperVars, procs, sideVars>>

\* ExecutionLogger.get_log_stats
GetLogStats ==
    /\ ret' = get_log_stats(files)
    /\ lastOp' = "get_log_stats"
    /\ raised' = FALSE
    /\ arg' = Null
    /\ UNCHANGED <<now, files, calls, successes, handles, wrapperVars, procs, sideVars>>

\* ---- generate_with_logging, one action per call it makes
\* the frame with the local variables v set and the position pc
Goto(pc, v) == [f \in DOMAIN frame \cup DOMAIN v |->
                   IF f = "pc" THEN pc ELSE IF f \in DOMAIN v THEN v[f] ELSE frame[f]]

NoLocals == <<>>

\* a client calls provider.generate_with_logging(prompt)
Call ==
    /\ frame.pc = "idle"
    /\ runs < MaxRuns
    /\ \E self \in ProviderSet, prompt \in PromptSet :
          frame' = [pc |-> "generate", self |-> self, prompt |-> prompt,
                    response |-> Null, latency_ms |-> Null, usage |-> Null,
                    metadata |-> Null, cost |-> Null, log_file |-> Null,
                    eval_results |-> Null]
    /\ runs' = runs + 1
    /\ trace' = <<>>
    /\ lastOp' = "call"
    /\ raised' = FALSE
    /\ ret' = Null
    /\ arg' = Null
    /\ UNCHANGED <<now, files, calls, successes, handles, procs, sideVars>>

\* the wrapper ends: it returns value, or raises when exc is set
End(value, exc) ==
    /\ frame' = Idle
    /\ lastOp' = "generate_with_logging"
    /\ ret' = value
    /\ raised' = exc

\* generate called inside the try block: its exception is swallowed with
\* the others and the wrapper returns None
GenerateGuarded ==
    /\ frame.pc = "generate"
    /\ \/ \E exc \in ExceptionSet :
             /\ trace' = Append(trace, Entry("generate", "raise", exc))
             /\ End(Null, FALSE)
       \/ \E text \in TextSet, latency \in LatencySet :
             /\ trace' = Append(trace, Entry("generate", "return", text))
             /\ frame' = Goto(IF frame.self.enable_logging /\ frame.self.logger
                              THEN "get_usage_info" ELSE "return",
                              [response |-> text, latency_ms |-> latency])
             /\ UNCHANGED <<lastOp, ret, raised>>
    /\ UNCHANGED <<now, files, calls, arg, successes, handles, runs, procs, sideVars>>

\* response = self.generate(...), not guarded: an exception leaves the
\* wrapper; then the latency and the test "enable_logging and logger"
Generate ==
    /\ frame.pc = "generate"
    /\ \/ \E exc \in ExceptionSet :
             /\ trace' = Append(trace, Entry("generate", "raise", exc))
             /\ End(exc, TRUE)
       \/ \E text \in TextSet, latency \in LatencySet :
             /\ trace' = Append(trace, Entry("generate", "return", text))
             /\ frame' = Goto(IF frame.self.enable_logging /\ frame.self.logger
                              THEN "get_usage_info" ELSE "return",
                              [response |-> text, latency_ms |-> latency])
             /\ UNCHANGED <<lastOp, ret, raised>>
    /\ UNCHANGED <<now, files, calls, arg, successes, handles, runs, procs, sideVars>>

\* get_usage_info called outside the try block: its exception leaves the
\* wrapper
GetUsageInfoUnguarded ==
    /\ frame.pc = "get_usage_info"
    /\ \/ /\ trace' = Append(trace, Entry("get_usage_info", "raise", ""))
          /\ End("KeyError", TRUE)
       \/ /\ trace' = Append(trace, Entry("get_usage_info", "return", ""))
          /\ \E usage \in ProviderUsageSet :
                frame' = Goto("get_metadata", [usage |-> usage])
          /\ UNCHANGED <<lastOp, ret, raised>>
    /\ UNCHANGED <<now, files, calls, arg, successes, handles, runs, procs, sideVars>>

\* usage = self.get_usage_info(); an exception goes to the outer handler
GetUsageInfo ==
    /\ frame.pc = "get_usage_info"
    /\ \/ /\ trace' = Append(trace, Entry("get_usage_info", "raise", ""))
          /\ frame' = Goto("return", NoLocals)
       \/ /\ trace' = Append(trace, Entry("get_usage_info", "return", ""))
          /\ \E usage \in ProviderUsageSet :
                frame' = Goto("get_metadata", [usage |-> usage])
    /\ UNCHANGED <<now, files, calls, lastOp, arg, raised, ret, successes,
                   handles, runs, procs, sideVars>>

\* metadata = self.get_metadata()
GetMetadata ==
    /\ frame.pc = "get_metadata"
    /\ \/ /\ trace' = Append(trace, Entry("get_metadata", "raise", ""))
          /\ frame' = Goto("return", NoLocals)
       \/ /\ trace' = Append(trace, Entry("get_metadata", "return", ""))
          /\ frame' = Goto("calculate_cost",
                           [metadata |-> Metadata(frame.self.provider,
                                                  frame.self.vendor,
                                                  frame.self.model_name)])
    /\ UNCHANGED <<now, files, calls, lastOp, arg, raised, ret, successes,
                   handles, runs, procs, sideVars>>

\* cost = calculate_cost(self.model_name, usage["input_tokens"],
\* usage["output_tokens"]); a null count raises TypeError in the division
CalculateCostStep ==
    /\ frame.pc = "calculate_cost"
    /\ IF frame.usage.input_tokens = NoCount \/ frame.usage.output_tokens = NoCount
       THEN /\ trace' = Append(trace, Entry("calculate_cost", "raise", ""))
            /\ frame' = Goto("return", NoLocals)
       ELSE /\ trace' = Append(trace, Entry("calculate_cost", "return", ""))
            /\ frame' = Goto("log_execution",
                             [cost |-> calculate_cost(frame.self.model_name,
                                                     frame.usage.input_tokens,
                                                     frame.usage.output_tokens)])
    /\ UNCHANGED <<now, files, calls, lastOp, arg, raised, ret, successes,
                   handles, runs, procs, sideVars>>

\* the wrapper with the test "enable_evaluation" alone after log_execution:
\* the evaluation runs on a null handle too
LogExecutionStepNoHandleTest ==
    /\ frame.pc = "log_execution"
    /\ \E io \in IoOutcomes :
          LET r == log_execution(files, now, frame.prompt, frame.response,
                                  frame.metadata, frame.usage, frame.cost,
                                  frame.latency_ms, io)
          IN  /\ files' = r.dir
              /\ successes' = IF r.ret = Null THEN successes ELSE successes + 1
              /\ handles' = IF r.ret = Null THEN handles ELSE handles \cup {r.ret}
              /\ trace' = Append(trace, Entry("log_execution",
                                 IF r.raised THEN "raise" ELSE "return", ""))
              /\ frame' = IF r.raised THEN Goto("return", NoLocals)
                          ELSE Goto(IF frame.self.enable_evaluation
                                    THEN "evaluate_response" ELSE "return",
                                    [log_file |-> r.ret])
    /\ UNCHANGED <<now, calls, lastOp, arg, raised, ret, runs, procs, sideVars>>

\* log_file = self.logger.log_execution(...) and the test
\* "enable_evaluation and log_file"
LogExecutionStep ==
    /\ frame.pc = "log_execution"
    /\ \E io \in IoOutcomes :
          LET r == log_execution(files, now, frame.prompt, frame.response,
                                  frame.metadata, frame.usage, frame.cost,
                                  frame.latency_ms, io)
          IN  /\ files' = r.dir
              /\ successes' = IF r.ret = Null THEN successes ELSE successes + 1
              /\ handles' = IF r.ret = Null THEN handles ELSE handles \cup {r.ret}
              /\ trace' = Append(trace, Entry("log_execution",
                                 IF r.raised THEN "raise" ELSE "return", ""))
              /\ frame' = IF r.raised THEN Goto("return", NoLocals)
                          ELSE Goto(IF frame.self.enable_evaluation /\ r.ret # Null
                                    THEN "evaluate_response" ELSE "return",
                                    [log_file |-> r.ret])
    /\ UNCHANGED <<now, calls, lastOp, arg, raised, ret, runs, procs, sideVars>>

\* eval_results = evaluate_response(prompt, response, context, ground_truth);
\* the import of the evaluator module may raise, into the inner handler
EvaluateResponse ==
    /\ frame.pc = "evaluate_response"
    /\ \/ /\ trace' = Append(trace, Entry("evaluate_response", "raise", ""))
          /\ frame' = Goto("return", NoLocals)
       \/ /\ trace' = Append(trace, Entry("evaluate_response", "return", ""))
          /\ \E engine \in EngineSet :
                frame' = Goto("add_evaluation_metrics",
                              [eval_results |->
                                  evaluate_response(frame.self.eval_context,
                                                     frame.self.eval_ground_truth,
                                                     engine)])
    /\ UNCHANGED <<now, files, calls, lastOp, arg, raised, ret, successes,
                   handles, runs, procs, sideVars>>

\* the wrapper that stores the evaluation only when it carries no error
AddEvaluationStepOnSuccessOnly ==
    /\ frame.pc = "add_evaluation_metrics"
    /\ \E io \in {"ok", "open_fails"} :
          LET r == IF frame.eval_results.error # Null
                   THEN [dir |-> files, raised |-> FALSE]
                   ELSE add_evaluation_metrics(files, frame.log_file,
                                               frame.eval_results, io)
          IN  /\ files' = r.dir
              /\ trace' = Append(trace, Entry("add_evaluation_metrics",
                                 IF r.raised THEN "raise" ELSE "return", ""))
    /\ frame' = Goto("return", NoLocals)
    /\ UNCHANGED <<now, calls, lastOp, arg, raised, ret, successes, handles, runs, procs, sideVars>>

\* self.logger.add_evaluation_metrics(log_file, eval_results); an
\* exception goes to the inner handler
AddEvaluationStep ==
    /\ frame.pc = "add_evaluation_metrics"
    /\ \E io \in {"ok", "open_fails"} :
          LET r == add_evaluation_metrics(files, frame.log_file,
                                          frame.eval_results, io)
          IN  /\ files' = r.dir
              /\ trace' = Append(trace, Entry("add_evaluation_metrics",
                                 IF r.raised THEN "raise" ELSE "return", ""))
    /\ frame' = Goto("return", NoLocals)
    /\ UNCHANGED <<now, calls, lastOp, arg, raised, ret, successes, handles, runs, procs, sideVars>>

\* return response
Return ==
    /\ frame.pc = "return"
    /\ End(frame.response, FALSE)
    /\ UNCHANGED <<now, files, calls, arg, successes, handles, trace, runs, procs, sideVars>>

\* ---- two log_execution calls at the same time, one action per step
\* timestamp = datetime.now() and _generate_filename with its existence
\* check; metadata["model"] raises KeyError, which ends the call with None
RaceGenerateFilename(p) ==
    /\ procs[p].pc = "start"
    /\ \E a \in LogArgs :
          procs' = [procs EXCEPT ![p] =
              IF "model" \notin DOMAIN a.metadata
              THEN [pc |-> "done", a |-> a, timestamp |-> now, log_file |-> Null,
                    ret |-> Null]
              ELSE [pc |-> "write", a |-> a, timestamp |-> now,
                    log_file |-> _generate_filename(files, a.metadata["model"], now),
                    ret |-> Null]]
    /\ UNCHANGED <<now, files, calls, lastOp, arg, raised, ret, successes,
                   handles, wrapperVars, sideVars>>

\* open(log_file, 'w'), json.dump and "return log_file"
RaceWrite(p) ==
    /\ procs[p].pc = "write"
    /\ \E prompt \in PromptSet, io \in IoOutcomes :
          LET me == procs[p]
              data == log_data(me.timestamp, prompt, me.a.response,
                              me.a.metadata, me.a.tokens, me.a.cost,
                              me.a.latency)
          IN  /\ files' = CASE io = "ok" -> WriteFile(files, me.log_file, data)
                            [] io = "open_fails" -> files
                            [] io = "dump_fails" ->
                                  WriteFile(files, me.log_file, CorruptContent)
              /\ procs' = [procs EXCEPT ![p].pc = "done",
                                        ![p].ret = IF io = "ok" THEN me.log_file
                                                   ELSE Null]
    /\ UNCHANGED <<now, calls, lastOp, arg, raised, ret, successes, handles,
                   wrapperVars, sideVars>>

\* ---- a provider used directly: its constructor, generate, get_usage_info
\* the prompts of the direct generate calls
ProviderPromptSet == {PromptHello}

\* a client constructs a provider of one of the four classes
Construct ==
    /\ providers = <<>>
    /\ \E kind \in ProviderKinds : providers' = (1 :> NewProvider(kind))
    /\ lastCall' = (1 :> [n |-> 0, good |-> 0, outcome |-> "none"])
    /\ UNCHANGED <<now, files, calls, lastOp, arg, raised, ret, successes,
                   handles, wrapperVars, procs, reported, sessions, evalCall, fnCall>>

\* provider.generate(prompt) called by a client
ProviderGenerate ==
    /\ 1 \in DOMAIN providers
    /\ lastCall[1].n < MaxGenerates
    /\ \E prompt \in ProviderPromptSet, answer \in VendorAnswers(providers[1].kind) :
          LET r == generate(providers[1], prompt, answer)
          IN  /\ providers' = [providers EXCEPT ![1] = r.self]
              /\ ret' = r.ret
              /\ raised' = r.raised
              /\ lastCall' = [lastCall EXCEPT ![1] =
                     [n |-> @.n + 1,
                      good |-> IF r.raised THEN @.good ELSE @.good + 1,
                      outcome |-> IF r.raised THEN "raise" ELSE "return"]]
    /\ lastOp' = "generate"
    /\ UNCHANGED <<now, files, calls, arg, successes, handles, wrapperVars,
                   procs, reported, sessions, evalCall, fnCall>>

\* provider.get_usage_info() called by a client
ProviderGetUsageInfo ==
    /\ 1 \in DOMAIN providers
    /\ \E counting \in {"ok", "raises"} :
          LET r == get_usage_info(providers[1], counting)
          IN  /\ providers' = [providers EXCEPT ![1] = r.self]
              /\ ret' = r.ret
              /\ raised' = r.raised
              /\ reported' = IF ~r.raised /\ lastCall[1].outcome = "return"
                             THEN reported \cup {r.ret} ELSE reported
    /\ lastOp' = "get_usage_info"
    /\ UNCHANGED <<now, files, calls, arg, successes, handles, wrapperVars,
                   procs, lastCall, sessions, evalCall, fnCall>>

Next ==
    \/ Tick
    \/ LogExecution
    \/ AddEvaluationMetrics
    \/ GetLogStats

\* the logger used directly by its clients
Spec == Init /\ [][Next]_vars

NextWrapper ==
    \/ Tick
    \/ Call
    \/ Generate
    \/ GetUsageInfo
    \/ GetMetadata
    \/ CalculateCostStep
    \/ LogExecutionStep
    \/ EvaluateResponse
    \/ AddEvaluationStep
    \/ Return

\* calls of generate_with_logging, one after the other, on providers that
\* share the log directory
SpecWrapper == Init /\ [][NextWrapper]_vars

NextRace ==
    \/ Tick
    \/ \E p \in Writers : RaceGenerateFilename(p)
    \/ \E p \in Writers : RaceWrite(p)

\* two clients that call log_execution on the same directory at once
SpecRace == Init /\ [][NextRace]_vars

\* ---- two logical sessions that call generate_with_logging, interleaved
Sessions == {1, 2}

\* what the vendor does in the calls of the sessions
SessionAnswers ==
    {VendorRaises,
     [raises |-> FALSE,
      response |-> ChatCompletion(TRUE, TextOk, CompletionUsage(3, 4))],
     [raises |-> FALSE,
      response |-> ChatCompletion(TRUE, TextFine, CompletionUsage(5, 6))]}

\* every session uses the one provider instance
InstanceOfShared(s) == 1

\* the provider instance session s calls: the same one for both sessions
\* when they share it, its own otherwise
InstanceOf(s) == IF sessions.shared THEN 1 ELSE s

\* the sessions with session s at position pc and its locals v set
SessionGoto(s, pc, v) ==
    [sessions EXCEPT !.s[s] =
        [f \in DOMAIN @ \cup DOMAIN v |->
            IF f = "pc" THEN pc ELSE IF f \in DOMAIN v THEN v[f] ELSE @[f]]]

\* the sessions are set up: one OpenAILLMProvider with logging enabled for
\* both, or one each
SessionSetup ==
    /\ sessions.pc = "unset"
    /\ \E shared \in BOOLEAN :
          /\ sessions' = [pc |-> "set", shared |-> shared,
                          s |-> [s \in Sessions |-> [pc |-> "idle"]]]
          /\ providers' = [i \in (IF shared THEN {1} ELSE Sessions) |->
                              NewProvider("openai")]
    /\ UNCHANGED <<now, files, calls, lastOp, arg, raised, ret, successes,
                   handles, wrapperVars, procs, lastCall, reported, evalCall, fnCall>>

\* session s calls generate_with_logging(prompt)
SessionCall(s) ==
    /\ sessions.pc = "set"
    /\ sessions.s[s].pc = "idle"
    /\ runs < MaxRuns
    /\ runs' = runs + 1
    /\ \E prompt \in ProviderPromptSet :
          sessions' = SessionGoto(s, "generate", [prompt |-> prompt])
    /\ UNCHANGED <<now, files, calls, lastOp, arg, raised, ret, successes,
                   handles, frame, trace, procs, providerVars, evalCall, fnCall>>

\* response = self.generate(...) in session s; an exception ends the call
SessionGenerate(s) ==
    /\ sessions.pc = "set"
    /\ sessions.s[s].pc = "generate"
    /\ \E answer \in SessionAnswers :
          LET i == InstanceOf(s)
              r == generate(providers[i], sessions.s[s].prompt, answer)
          IN  /\ providers' = [providers EXCEPT ![i] = r.self]
              /\ sessions' = IF r.raised THEN SessionGoto(s, "idle", NoLocals)
                             ELSE SessionGoto(s, "get_usage_info",
                                              [response |-> r.ret])
    /\ UNCHANGED <<now, files, calls, lastOp, arg, raised, ret, successes,
                   handles, wrapperVars, procs, lastCall, reported, evalCall, fnCall>>

\* usage = self.get_usage_info() in session s; an exception goes to the
\* outer handler and the call returns
SessionGetUsageInfo(s) ==
    /\ sessions.pc = "set"
    /\ sessions.s[s].pc = "get_usage_info"
    /\ LET r == get_usage_info(providers[InstanceOf(s)], "ok")
       IN  sessions' = IF r.raised THEN SessionGoto(s, "idle", NoLocals)
                       ELSE SessionGoto(s, "log_execution", [usage |-> r.ret])
    /\ UNCHANGED <<now, files, calls, lastOp, arg, raised, ret, successes,
                   handles, wrapperVars, procs, providerVars, evalCall, fnCall>>

\* get_metadata, calculate_cost and log_execution in session s, with
\* enable_evaluation unset; then "return response"
SessionLogExecution(s) ==
    /\ sessions.pc = "set"
    /\ sessions.s[s].pc = "log_execution"
    /\ \E io \in IoOutcomes, latency \in LatencySet :
          LET me == sessions.s[s]
              metadata == Metadata("openai", "openai", ModelGpt4)
              cost == calculate_cost(ModelGpt4, me.usage.input_tokens,
                                     me.usage.output_tokens)
              r == log_execution(files, now, [user |-> me.prompt, system |-> Null],
                                 me.response, metadata, me.usage, cost, latency, io)
          IN  files' = r.dir
    /\ sessions' = SessionGoto(s, "idle", NoLocals)
    /\ UNCHANGED <<now, calls, lastOp, arg, raised, ret, successes, handles,
                   wrapperVars, procs, providerVars, evalCall, fnCall>>

NextSessions ==
    \/ Tick
    \/ SessionSetup
    \/ \E s \in Sessions : SessionCall(s)
    \/ \E s \in Sessions : SessionGenerate(s)
    \/ \E s \in Sessions : SessionGetUsageInfo(s)
    \/ \E s \in Sessions : SessionLogExecution(s)

\* two sessions whose generate_with_logging calls interleave
SpecSessions == Init /\ [][NextSessions]_vars

\* ---- evaluate_response called directly
\* optional texts: None, a blank text, a text
OptTextSet == {Null, Some(" "), Some("ctx")}

\* scores of the engine in 1e-4 units, by metric
EngineScores(level) ==
    ("answer_relevancy" :> level) @@ ("faithfulness" :> 6000) @@
    ("answer_correctness" :> 5000) @@ ("context_precision" :> 7000)

\* the four metrics the engine knows
AllMetrics ==
    {"answer_relevancy", "faithfulness", "answer_correctness", "context_precision"}

\* answers of the engine to a request for the metrics of the list metrics:
\* the evaluator cannot be built, the engine raises, or it returns scores
\* in one of its result shapes: of the requested metrics, of all four
\* metrics, or of none
EngineAnswers(metrics) ==
    {[outcome |-> "init_fails", shape |-> "none", scores |-> <<>>],
     [outcome |-> "raises", shape |-> "none", scores |-> <<>>]}
    \cup
    {[outcome |-> "ok", shape |-> shape,
      scores |-> [m \in given |-> EngineScores(level)[m]]] :
        shape \in {"to_pandas", "scores", "indexed", "empty"},
        level \in {0, 8004, 10000},
        given \in {{metrics[i] : i \in DOMAIN metrics}, AllMetrics, {}}}

\* evaluate_response(prompt, response, context, ground_truth) called by a
\* client: the metric list handed to the engine and the result returned
Evaluate ==
    /\ \E context \in OptTextSet, ground_truth \in OptTextSet :
          \E engine \in EngineAnswers(metrics_to_use(context, ground_truth)) :
             evalCall' = Some([context |-> context, ground_truth |-> ground_truth,
                               engine |-> engine,
                               metrics |-> IF engine.outcome = "init_fails" THEN Null
                                           ELSE Some(metrics_to_use(context, ground_truth)),
                               result |-> evaluate_response(context, ground_truth, engine)])
    /\ UNCHANGED <<now, files, calls, lastOp, arg, raised, ret, successes,
                   handles, wrapperVars, procs, providerVars, sessions, fnCall>>

NextEvaluator ==
    \/ Evaluate

\* the evaluation selector called directly
SpecEvaluator == Init /\ [][NextEvaluator]_vars

NextProvider ==
    \/ Construct
    \/ ProviderGenerate
    \/ ProviderGetUsageInfo

\* one provider instance called directly by its client
SpecProvider == Init /\ [][NextProvider]_vars

\* ------------------------------------------- the functions without state
MaxTextLen == 9

\* a text of n letters
Letters(n) == [i \in 1..n |-> "a"]

\* a text that names a special token of the encodings
SpecialText == <<"<","|","e","n","d","o","f","t","e","x","t","|",">">>

TextInputs == {Letters(n) : n \in 0..MaxTextLen} \cup {<<" ">>, SpecialText}

\* the outcome of a function: the value returned or the exception raised
Ok(value) == [raised |-> FALSE, ret |-> value]

Exc(exception) == [raised |-> TRUE, ret |-> exception]

\* whether "import tiktoken" succeeds in the environment
TiktokenSet == {"missing", "installed"}

\* token_counter.count_with_tiktoken: ImportError without the library;
\* with it an encoding is found for every model (encoding_for_model, or
\* cl100k_base after its KeyError) and len(encoding.encode(text)) is
\* returned, every character counted as one token; encode refuses a text
\* that holds a special token with ValueError
count_with_tiktoken(text, tiktoken) ==
    IF tiktoken = "missing" THEN Exc("ImportError")
    ELSE IF text = SpecialText THEN Exc("ValueError")
    ELSE Ok(Len(text))

\* token_counter.count_prompt_and_completion
count_prompt_and_completion(prompt, completion, tiktoken) ==
    LET input == count_with_tiktoken(prompt, tiktoken)
        output == count_with_tiktoken(completion, tiktoken)
        failed == IF input.raised THEN input ELSE output
    IN  IF ~input.raised /\ ~output.raised
        THEN Ok([input_tokens |-> input.ret,
                 output_tokens |-> output.ret,
                 total_tokens |-> input.ret + output.ret,
                 estimated |-> FALSE])
        ELSE IF failed.ret = "ImportError"
        THEN Ok([input_tokens |-> estimate_tokens(prompt),
                 output_tokens |-> estimate_tokens(completion),
                 total_tokens |-> estimate_tokens(prompt) + estimate_tokens(completion),
                 estimated |-> TRUE])
        ELSE failed

\* self.temperature (in tenths) and self.max_tokens of a provider
Sampling(temperature, max_tokens) ==
    [temperature |-> temperature, max_tokens |-> max_tokens]

SamplingSet == {Sampling(1, 4096), Sampling(7, 1024)}

\* the overrides a client passes to generate: None, zero, another value
TemperatureSet == {Null, Some(0), Some(5)}

MaxTokensSet == {Null, Some(0), Some(256)}

\* "override or self.attribute": the attribute unless the override is
\* truthy (neither None nor zero)
OrDefault(override, attribute) ==
    IF override = Null \/ override[1] = 0 THEN attribute ELSE override[1]

\* the sampling parameters generate hands to the vendor call
VendorParameters(kind, self, temperature, max_tokens) ==
    IF kind = "gemini" /\ temperature = Null /\ max_tokens = Null
    THEN Sampling(self.temperature, self.max_tokens)
    ELSE Sampling(OrDefault(temperature, self.temperature),
                  OrDefault(max_tokens, self.max_tokens))

TokenCounts == {0, 1, 3, 1000000}

\* model strings handed to calculate_cost: priced models, the key of the
\* default entry, the empty string and a model the table lacks
PricingModels ==
    {ModelGpt4Turbo, ModelGpt4oMini, ModelGemini15Flash, ModelDefault,
     <<>>, ModelGpt41}

\* CostCalculator.calculate_cost called by a client
CalculateCost ==
    /\ \E model \in PricingModels, input_tokens \in TokenCounts,
          output_tokens \in TokenCounts :
          fnCall' = Some([fn |-> "calculate_cost", model |-> model,
                          input_tokens |-> input_tokens,
                          output_tokens |-> output_tokens,
                          result |-> calculate_cost(model, input_tokens,
                                                    output_tokens)])
    /\ UNCHANGED <<now, files, calls, lastOp, arg, raised, ret, successes,
                   handles, wrapperVars, procs, providerVars, sessions,
                   evalCall>>

\* estimate_tokens called by a client
EstimateTokens ==
    /\ \E text \in TextInputs :
          fnCall' = Some([fn |-> "estimate_tokens", text |-> text,
                          result |-> estimate_tokens(text)])
    /\ UNCHANGED <<now, files, calls, lastOp, arg, raised, ret, successes,
                   handles, wrapperVars, procs, providerVars, sessions,
                   evalCall>>

\* count_prompt_and_completion called by a client
CountPromptAndCompletion ==
    /\ \E prompt \in {Letters(3), SpecialText},
          completion \in {<<>>, Letters(MaxTextLen - 1), SpecialText},
          tiktoken \in TiktokenSet :
          fnCall' = Some([fn |-> "count_prompt_and_completion",
                          prompt |-> prompt, completion |-> completion,
                          tiktoken |-> tiktoken,
                          result |-> count_prompt_and_completion(
                                        prompt, completion, tiktoken)])
    /\ UNCHANGED <<now, files, calls, lastOp, arg, raised, ret, successes,
                   handles, wrapperVars, procs, providerVars, sessions,
                   evalCall>>

\* generate of a new provider called with overrides: the sampling
\* parameters of the vendor call and the outcome of the call
GenerateWithOverrides ==
    /\ \E kind \in ProviderKinds, self \in SamplingSet,
          temperature \in TemperatureSet, max_tokens \in MaxTokensSet :
          \E answer \in VendorAnswers(kind) :
             fnCall' = Some([fn |-> "generate", kind |-> kind, self |-> self,
                             temperature |-> temperature,
                             max_tokens |-> max_tokens,
                             vendor |-> VendorParameters(kind, self, temperature,
                                                         max_tokens),
                             outcome |-> generate(NewProvider(kind),
                                                  PromptHello, answer)])
    /\ UNCHANGED <<now, files, calls, lastOp, arg, raised, ret, successes,
                   handles, wrapperVars, procs, providerVars, sessions,
                   evalCall>>

NextFunctions ==
    \/ CalculateCost
    \/ EstimateTokens
    \/ CountPromptAndCompletion
    \/ GenerateWithOverrides

\* the cost calculator, the token counter and the overrides of generate,
\* each called directly
SpecFunctions == Init /\ [][NextFunctions]_vars

\* ------------------------------------------------------------- properties
\* the stored records: the files that hold valid JSON
Records(dir) == {f \in DOMAIN dir : dir[f].valid}

\* the primary fields of a record
Primary(r) ==
    <<r.timestamp, r.model, r.provider, r.prompt, r.response, r.tokens,
      r.cost, r.latency_ms, r.metadata>>

\* C1: when provider.generate raises inside generate_with_logging, the
\* wrapper ends by raising that same exception, and it has made no other
\* call (no get_usage_info, calculate_cost, log_execution or
\* evaluate_response) and left the log directory as it was.
C1_GenerateFailurePropagates ==
    [][\A exc \in ExceptionSet :
          (frame.pc = "generate"
           /\ trace' = Append(trace, Entry("generate", "raise", exc)))
          => /\ frame' = Idle
             /\ lastOp' = "generate_with_logging"
             /\ raised' /\ ret' = exc
             /\ trace' = <<Entry("generate", "raise", exc)>>
             /\ files' = files]_vars

C1_Witness ==
    /\ lastOp = "generate_with_logging"
    /\ raised
    /\ ret = "APIConnectionError"
    /\ trace = <<Entry("generate", "raise", "APIConnectionError")>>
    /\ Records(files) # {}

\* C2: once provider.generate has returned a text, generate_with_logging
\* does not raise and, when it ends, returns exactly that text, whatever
\* the instrumentation calls do (return or raise) and whatever
\* enable_logging and enable_evaluation are.
C2_ReturnsGeneratedText ==
    (trace # <<>> /\ trace[1][2] = "return")
    => /\ ~raised
       /\ frame.pc = "idle" =>
             (lastOp = "generate_with_logging" /\ ret = trace[1][3])
       /\ frame.pc # "idle" => frame.response = trace[1][3]

C2_Witness ==
    /\ lastOp = "generate_with_logging"
    /\ frame.pc = "idle"
    /\ ~raised
    /\ ret = "bye"
    /\ \E i \in DOMAIN trace : trace[i][1] = "add_evaluation_metrics"
                               /\ trace[i][2] = "raise"

\* C3: after any sequence of successful log_execution calls, every call
\* has returned a handle different from the handles returned before, and
\* the number of stored records equals the number of successful calls.
C3_HandlesDistinct ==
    /\ Cardinality(handles) = successes
    /\ Cardinality(Records(files)) = successes

\* C4: two log_execution calls for the same model interleaved in the same
\* second write to two different files, and both records are present
\* afterwards.
C4_InterleavedWritesDistinct ==
    (/\ \A p \in Writers : procs[p].pc = "done" /\ procs[p].ret # Null
     /\ procs[1].a.metadata.model = procs[2].a.metadata.model
     /\ procs[1].timestamp.sec = procs[2].timestamp.sec)
    => /\ procs[1].ret # procs[2].ret
       /\ \A p \in Writers :
             /\ procs[p].ret \in Records(files)
             /\ files[procs[p].ret].response = procs[p].a.response

\* C5: log_execution never raises; when building or writing the record
\* fails (no "model" key, open() or the dump fails) it returns None, and
\* otherwise it returns the path of the record it wrote.
C5_LogExecutionNeverRaises ==
    lastOp = "log_execution"
    => /\ ~raised
       /\ IF "model" \in DOMAIN arg.metadata /\ arg.io = "ok"
          THEN /\ ret \in Records(files)
               /\ files[ret].model = arg.metadata.model
               /\ files[ret].response = arg.response
               /\ files[ret].evaluation = Null
          ELSE ret = Null

C5_Witness ==
    /\ lastOp = "log_execution"
    /\ arg.io = "dump_fails"
    /\ "model" \in DOMAIN arg.metadata
    /\ ret = Null
    /\ ~raised

\* C6: the primary fields of every stored record keep the values written
\* at its creation, whatever log_execution and add_evaluation_metrics
\* calls follow.
C6_PrimaryFieldsKept ==
    [][\A f \in Records(files) :
          /\ f \in Records(files')
          /\ Primary(files'[f]) = Primary(files[f])]_vars

\* C7: once a record has an evaluation block, no later operation of the
\* logger changes that block.
C7_EvaluationBlockKept ==
    [][\A f \in Records(files) :
          files[f].evaluation # Null
          => /\ f \in Records(files')
             /\ files'[f].evaluation = files[f].evaluation]_vars

\* C8: add_evaluation_metrics on a handle whose record does not exist or
\* is not valid JSON raises and leaves the directory as it was.
C8_AddEvaluationFailsLoudly ==
    [][(lastOp' = "add_evaluation_metrics" /\ arg' \notin Records(files))
       => (raised' /\ files' = files)]_vars

C8_Witness ==
    /\ lastOp = "add_evaluation_metrics"
    /\ raised
    /\ arg \in DOMAIN files
    /\ ~files[arg].valid
    /\ MissingFile \notin DOMAIN files

\* C9: get_log_stats returns the number of the records written by
\* log_execution, the sum of their cost.total_cost, the sum of their
\* tokens.total_tokens and the set of their providers.
C9_StatsAreSums ==
    (lastOp = "get_log_stats" /\ Records(files) = DOMAIN files)
    => /\ ret.total_logs = Cardinality(Records(files))
       /\ ret.total_cost * 100 =
             SumOver(Records(files), [f \in Records(files) |-> files[f].cost.total_cost])
       /\ ret.total_tokens =
             SumOver(Records(files), [f \in Records(files) |-> files[f].tokens.total_tokens])
       /\ ret.providers_used = {files[f].provider : f \in Records(files)}

\* C10: get_log_stats skips a corrupt record: the result equals the result
\* computed over the readable records alone.
C10_StatsSkipCorrupt ==
    lastOp = "get_log_stats"
    => ret = get_log_stats([f \in Records(files) |-> files[f]])

\* C11: get_log_stats changes no file of the log directory, and a call that
\* follows another get_log_stats call with no log_execution or
\* add_evaluation_metrics call in between returns the same aggregates.
C11_StatsReadOnlyIdempotent ==
    [][lastOp' = "get_log_stats"
       => /\ files' = files
          /\ lastOp = "get_log_stats" => ret' = ret]_vars

C11_Witness ==
    /\ lastOp = "get_log_stats"
    /\ ret.total_logs = 2
    /\ Cardinality(Records(files)) = 1
    /\ \E f \in Records(files) : files[f].evaluation # Null

\* C12: the record that a successful log_execution has just written holds
\* the prompt, response, tokens and cost of the call unchanged, the model,
\* provider, temperature, max_tokens, vendor and type of the metadata
\* argument, latency_ms equal to the latency rounded to 2 decimals, and no
\* evaluation block.
C12_RecordRoundTrip ==
    (lastOp = "log_execution" /\ ret # Null)
    => /\ ret \in Records(files)
       /\ LET r == files[ret]
              m == arg.metadata
          IN  /\ r.prompt = arg.prompt
              /\ r.response = arg.response
              /\ r.tokens = arg.tokens
              /\ r.cost = arg.cost
              /\ r.model = m.model
              /\ r.provider = m.provider
              /\ r.metadata = [temperature |-> m.temperature,
                               max_tokens |-> m.max_tokens,
                               vendor |-> m.vendor, type |-> m.type]
              /\ 10 * r.latency_ms - 5 <= arg.latency
              /\ arg.latency <= 10 * r.latency_ms + 5
              /\ r.evaluation = Null

C12_Witness ==
    /\ lastOp = "log_execution"
    /\ ret \in Records(files)
    /\ arg.latency = 12346
    /\ files[ret].latency_ms = 1235
    /\ files[ret].tokens = Usage(3, 4)
    /\ Cardinality(DOMAIN files) = 2

\* C13: the path a successful log_execution returns is
\* "{slug}-{YYYY-MM-DD-HHMMSS}.json", or that name with "-{microseconds}"
\* before the extension when the first name exists already, where slug is
\* the model name in lowercase with every ".", ":", "/" and space replaced
\* by a hyphen.
C13_IdentifierFormat ==
    [][(lastOp' = "log_execution" /\ ret' # Null)
       => LET model == arg'.metadata.model
              slug == Lower(Replace(Replace(Replace(Replace(model,
                          ".", <<"-">>), ":", <<"-">>), "/", <<"-">>), " ", <<"-">>))
              first == slug \o <<"-">> \o time_str(now) \o JsonExt
              second == slug \o <<"-">> \o time_str(now) \o <<"-">>
                            \o micro_str(now) \o JsonExt
          IN  ret' = IF first \in DOMAIN files THEN second ELSE first]_vars

\* C14: inside generate_with_logging, evaluate_response is called exactly
\* when logging is enabled, log_execution has returned a non-null handle in
\* this call and evaluation is enabled; add_evaluation_metrics is called
\* only right after evaluate_response has returned, and it touches no file
\* but that handle; outside log_execution and add_evaluation_metrics the
\* call changes no file.
C14_EvaluationGating ==
    [][/\ frame'.pc # "idle" =>
             LET self == frame'.self
                 evaluated == \E i \in DOMAIN trace' : trace'[i][1] = "evaluate_response"
             IN  /\ evaluated =>
                        /\ self.enable_logging /\ self.enable_evaluation
                        /\ frame'.log_file # Null
                        /\ \E i \in DOMAIN trace' :
                               /\ trace'[i] = Entry("log_execution", "return", "")
                               /\ trace'[i + 1][1] = "evaluate_response"
                 /\ (frame'.pc = "return" /\ self.enable_logging
                     /\ self.enable_evaluation /\ frame'.log_file # Null)
                    => evaluated
                 /\ \A i \in DOMAIN trace' :
                        trace'[i][1] = "add_evaluation_metrics"
                        => trace'[i - 1] = Entry("evaluate_response", "return", "")
       /\ frame.pc = "add_evaluation_metrics" =>
             /\ DOMAIN files' = DOMAIN files
             /\ \A f \in DOMAIN files : f # frame.log_file => files'[f] = files[f]
       /\ frame.pc \notin {"log_execution", "add_evaluation_metrics"} => files' = files
      ]_vars

C14_Witness ==
    /\ frame.pc = "return"
    /\ frame.self.enable_logging /\ frame.self.enable_evaluation
    /\ frame.log_file = Null
    /\ trace[Len(trace)] = Entry("log_execution", "return", "")
    /\ Records(files) # {}

C16_UsageFailureContinues ==
    (/\ frame.pc = "return"
     /\ \E i \in DOMAIN trace : trace[i] = Entry("get_usage_info", "raise", ""))
    => /\ \E i \in DOMAIN trace : trace[i] = Entry("calculate_cost", "return", "")
       /\ \E i \in DOMAIN trace : trace[i][1] = "log_execution"

\* C17: get_usage_info called after a generate call that raised does not
\* return the token counts it returned for an earlier generate call of the
\* same provider that succeeded.
C17_UsageOfLastCallOnly ==
    (lastOp = "get_usage_info" /\ ~raised /\ lastCall[1].outcome = "raise")
    => ret \notin reported

\* C18: get_usage_info never raises and returns three token counts that
\* are natural numbers; before any generate call has succeeded it returns
\* 0, 0, 0.
C18_UsageNeverRaises ==
    lastOp = "get_usage_info"
    => /\ ~raised
       /\ ret.input_tokens \in Nat
       /\ ret.output_tokens \in Nat
       /\ ret.total_tokens \in Nat
       /\ lastCall[1].good = 0 => ret = Usage(0, 0)

\* C19: when every session holds its own provider instance, the tokens of
\* every record are the usage the vendor reported with the response that
\* the record holds, whatever the interleaving of the sessions' calls.
\* With one instance shared by the two sessions a record can carry the
\* usage of the other session's call (the state C19_Witness describes).
C19_OwnInstanceUsageMatches ==
    (sessions.pc = "set" /\ ~sessions.shared)
    => \A f \in Records(files) :
          \E a \in SessionAnswers \ {VendorRaises} :
             /\ files[f].response = a.response.content
             /\ files[f].tokens.input_tokens = a.response.usage[1].prompt_tokens
             /\ files[f].tokens.output_tokens = a.response.usage[1].completion_tokens
             /\ files[f].tokens.total_tokens = a.response.usage[1].total_tokens

C19_Witness ==
    /\ sessions.pc = "set"
    /\ sessions.shared
    /\ \E f \in Records(files) :
          /\ files[f].response = TextOk
          /\ files[f].tokens = Usage(5, 6)
    /\ \A s \in Sessions : sessions.s[s].pc = "idle"

\* C20: the metric list evaluate_response hands to the engine is the one of
\* the table: answer_relevancy alone with neither context nor ground
\* truth; with faithfulness for a context alone; with answer_correctness
\* for a ground truth alone; all four metrics with both.  An input is
\* present when it is a text that is not blank.
C20_RequestedMetrics ==
    (evalCall # Null /\ evalCall[1].metrics # Null)
    => LET c == evalCall[1].context
           g == evalCall[1].ground_truth
           has_c == c \in {Some("ctx")}
           has_g == g \in {Some("ctx")}
           requested == evalCall[1].metrics[1]
       IN  requested =
              CASE ~has_c /\ ~has_g -> <<"answer_relevancy">>
                [] has_c /\ ~has_g -> <<"answer_relevancy", "faithfulness">>
                [] ~has_c /\ has_g -> <<"answer_relevancy", "answer_correctness">>
                [] has_c /\ has_g -> <<"answer_relevancy", "faithfulness",
                                       "answer_correctness", "context_precision">>

C20_Witness ==
    /\ evalCall # Null
    /\ evalCall[1].context = Some("ctx")
    /\ evalCall[1].ground_truth = Null
    /\ evalCall[1].metrics = Some(<<"answer_relevancy", "faithfulness">>)
    /\ evalCall[1].engine.outcome = "ok"

C22_OverallIsMeanOfUsed ==
    (evalCall # Null /\ evalCall[1].result.error = Null)
    => LET r == evalCall[1].result
           used == {r.metrics_used[i] : i \in DOMAIN r.metrics_used}
           fields == <<r.relevance, r.coherence, r.correctness, r.context_quality>>
           names == <<"answer_relevancy", "faithfulness", "answer_correctness",
                      "context_precision">>
           present == {i \in 1..4 : fields[i] # Null}
           total == SumOver(present, [i \in present |-> fields[i][1]])
           n == Cardinality(present)
       IN  /\ used = {names[i] : i \in present}
           /\ Len(r.metrics_used) = n
           /\ n >= 1
           /\ r.overall_score # Null
           /\ r.overall_score[1] * n - total <= n
           /\ total - r.overall_score[1] * n <= n

C22_Witness ==
    /\ evalCall # Null
    /\ evalCall[1].context = Some("ctx")
    /\ evalCall[1].ground_truth = Null
    /\ evalCall[1].result.relevance = Some(800)
    /\ evalCall[1].result.coherence = Some(600)
    /\ evalCall[1].result.correctness = Null
    /\ evalCall[1].result.overall_score = Some(700)

\* C23: with a context and a ground truth supplied and an engine result
\* that holds the scores of the four requested metrics, evaluate_response
\* returns relevance, coherence, correctness and context_quality all
\* non-null, for each result shape: table row (to_pandas), scores
\* attribute, indexed container.
C23_AllShapesGiveFourScores ==
    (/\ evalCall # Null
     /\ HasText(evalCall[1].context) /\ HasText(evalCall[1].ground_truth)
     /\ evalCall[1].engine.outcome = "ok"
     /\ evalCall[1].engine.shape \in {"to_pandas", "scores", "indexed"}
     /\ DOMAIN evalCall[1].engine.scores = AllMetrics)
    => LET r == evalCall[1].result
       IN  /\ r.relevance # Null
           /\ r.coherence # Null
           /\ r.correctness # Null
           /\ r.context_quality # Null

\* C24: when the evaluator cannot be built, the engine raises, or the
\* engine's result cannot be converted or holds no score, the result of
\* evaluate_response is the error form: relevance, coherence, correctness,
\* context_quality and overall_score null, error set, metrics_used empty.
C24_FailureGivesErrorForm ==
    (/\ evalCall # Null
     /\ \/ evalCall[1].engine.outcome \in {"init_fails", "raises"}
        \/ evalCall[1].engine.shape = "empty"
        \/ DOMAIN evalCall[1].engine.scores = {})
    => LET r == evalCall[1].result
       IN  /\ r.relevance = Null
           /\ r.coherence = Null
           /\ r.correctness = Null
           /\ r.context_quality = Null
           /\ r.overall_score = Null
           /\ r.error # Null
           /\ r.metrics_used = <<>>

\* the models of the price table: its keys other than the default entry
PricedModels == DOMAIN MODEL_PRICING \ {ModelDefault}

\* C25: calculate_cost returns pricing_available = false exactly when the
\* model string is not a model of the price table (the default entry was
\* used), and then the three costs are 0; for a model of the table it
\* returns pricing_available = true.
C25_UnpricedExactlyWhenNotAModel ==
    (fnCall # Null /\ fnCall[1].fn = "calculate_cost")
    => LET c == fnCall[1]
       IN  /\ (c.result.pricing_available = FALSE) <=> (c.model \notin PricedModels)
           /\ c.result.pricing_available = FALSE
              => /\ c.result.input_cost = 0
                 /\ c.result.output_cost = 0
                 /\ c.result.total_cost = 0

\* C26: for every model of the price table and all token counts,
\* input_cost and output_cost are non-negative and are tokens / 1,000,000
\* times the price of the direction rounded to 6 decimals (within half a
\* micro-dollar of the exact product); gpt-4-turbo with 1,000,000 and
\* 1,000,000 tokens costs 10.00, 30.00 and 40.00 in total.
C26_CostIsRoundedProduct ==
    (fnCall # Null /\ fnCall[1].fn = "calculate_cost"
        /\ fnCall[1].model \in PricedModels)
    => LET c == fnCall[1]
           price == MODEL_PRICING[c.model]
           Off(cost, tokens, p) ==
               (cost - (tokens \div 1000) * p) * 1000 - (tokens % 1000) * p
       IN  /\ c.result.input_cost >= 0
           /\ c.result.output_cost >= 0
           /\ Off(c.result.input_cost, c.input_tokens, price.input) \in -500..500
           /\ Off(c.result.output_cost, c.output_tokens, price.output) \in -500..500
           /\ (c.model = ModelGpt4Turbo /\ c.input_tokens = 1000000
                  /\ c.output_tokens = 1000000)
              => /\ c.result.input_cost = 10000000
                 /\ c.result.output_cost = 30000000
                 /\ c.result.total_cost = 40000000

\* a call of gpt-4-turbo with a million tokens each way
C26_Witness ==
    /\ fnCall # Null
    /\ fnCall[1].fn = "calculate_cost"
    /\ fnCall[1].model = ModelGpt4Turbo
    /\ fnCall[1].input_tokens = 1000000
    /\ fnCall[1].output_tokens = 1000000
    /\ fnCall[1].result.input_cost = 10000000
    /\ fnCall[1].result.output_cost = 30000000
    /\ fnCall[1].result.total_cost = 40000000

\* C27: estimate_tokens returns 0 if and only if the text is empty, and
\* for a non-empty text the larger of 1 and a quarter of its length
\* (rounded down), hence at least 1.
C27_EstimateZeroIffEmpty ==
    (fnCall # Null /\ fnCall[1].fn = "estimate_tokens")
    => LET c == fnCall[1]
           quarter == Len(c.text) \div 4
       IN  /\ (c.result = 0) <=> (c.text = <<>>)
           /\ c.text # <<>>
              => /\ c.result = (IF quarter >= 1 THEN quarter ELSE 1)
                 /\ c.result >= 1

\* a text shorter than four characters estimated as one token
C27_Witness ==
    /\ fnCall # Null
    /\ fnCall[1].fn = "estimate_tokens"
    /\ Len(fnCall[1].text) \in 1..3
    /\ fnCall[1].result = 1

\* C28: in every breakdown calculate_cost returns for a priced model, the
\* returned total_cost is the returned input_cost plus the returned
\* output_cost.
C28_TotalIsSumOfReturnedParts ==
    (fnCall # Null /\ fnCall[1].fn = "calculate_cost"
        /\ fnCall[1].model \in PricedModels)
    => fnCall[1].result.total_cost
          = fnCall[1].result.input_cost + fnCall[1].result.output_cost

\* C29: count_prompt_and_completion never raises: it returns the counts
\* of the tokenizer (estimated = false) when the tokenizer gives them, and
\* the estimates of estimate_tokens (estimated = true) whenever the
\* tokenizer raises, whatever the failure.
C29_FallsBackOnAnyFailure ==
    (fnCall # Null /\ fnCall[1].fn = "count_prompt_and_completion")
    => LET c == fnCall[1]
           input == count_with_tiktoken(c.prompt, c.tiktoken)
           output == count_with_tiktoken(c.completion, c.tiktoken)
       IN  /\ ~c.result.raised
           /\ IF ~input.raised /\ ~output.raised
              THEN /\ c.result.ret.estimated = FALSE
                   /\ c.result.ret.input_tokens = input.ret
                   /\ c.result.ret.output_tokens = output.ret
              ELSE /\ c.result.ret.estimated = TRUE
                   /\ c.result.ret.input_tokens = estimate_tokens(c.prompt)
                   /\ c.result.ret.output_tokens = estimate_tokens(c.completion)

\* C30: generate hands the vendor call the temperature and max_tokens
\* overrides whenever they are not None, an override of 0 as 0, and the
\* provider's own values only for an override that is None.
C30_OverrideUsedUnlessNone ==
    (fnCall # Null /\ fnCall[1].fn = "generate")
    => LET c == fnCall[1]
       IN  /\ c.vendor.temperature
                 = (IF c.temperature = Null THEN c.self.temperature
                    ELSE c.temperature[1])
           /\ c.vendor.max_tokens
                 = (IF c.max_tokens = Null THEN c.self.max_tokens
                    ELSE c.max_tokens[1])

====
